---- MODULE Spec2Model ----
(***************************************************************************)
(* CEOpenOrchestrator: the workflow state machine.                         *)
(*                                                                         *)
(* The persistent state is the content of the .workflow/ directory: the    *)
(* signal markers, the plan and review artifacts, state.json and the       *)
(* branch sessions.  The operations are the orchestrator's keypress        *)
(* handlers, the CLI commands, the web server's actions and the external   *)
(* agents that write artifacts and signal markers.                         *)
(***************************************************************************)
EXTENDS Integers, FiniteSets, Sequences, TLC

\* ------------------------------------------------------------------------
\* Bounds of the model
\* ------------------------------------------------------------------------

\* largest value getCommitCount() is taken to return
MaxCommits == 1

\* cap of the history counter of successful refine dispatches
MaxRefines == 3

\* a reset (clearWorkflow, init) is issued while at most this many dispatched
\* agents have not yet written their marker
MaxBusyAtReset == 0

\* The number of events logged in a run.
MaxEvents == 3

\* The largest limit asked of getRecentEvents.
MaxLimit == 4

\* ------------------------------------------------------------------------
\* Program constants
\* ------------------------------------------------------------------------

\* the iteration at which handleDispatchRefine refuses
MaxIterations == 3

VALID_PHASES ==
    {"init", "planning", "implementing", "reviewing", "refining",
     "compounding", "complete"}

ReviewStatuses == {"PASS", "PASS_WITH_WARNINGS", "FAIL", "PENDING"}

ImplSignals == {"backend", "frontend", "tests"}

refineSignals == {"backend-refine", "frontend-refine", "tests-refine"}

SignalNames ==
    {"plan", "review", "compound", "pr"} \cup ImplSignals \cup refineSignals

\* The substrings of REVIEW.md that getReviewStatus looks for.
Marks ==
    {"STATUS: PASS", "PASS_WITH_WARNINGS", "Warnings", "Non-blocking",
     "STATUS: FAIL"}

\* REVIEW.md: missing, present but unreadable, or a text, of which only the
\* substrings of Marks it contains matter.
NoReview == [kind |-> "missing", marks |-> {}]

Unreadable == [kind |-> "unreadable", marks |-> {}]

ReviewText(m) == [kind |-> "text", marks |-> m]

ReviewFiles == {NoReview, Unreadable} \cup {ReviewText(m) : m \in SUBSET Marks}

\* The git branches of the working copy.
Branches == {"main", "compound/x"}

NoBranch == "-"

VARIABLES
    signals,      \* names n with a marker .workflow/signals/n.done
    signalsDir,   \* .workflow/signals/: "dir", "missing" or "unreadable"
    reviewFile,   \* .workflow/REVIEW.md
    planFile,     \* TRUE iff .workflow/PLAN.md exists
    stateFile,    \* .workflow/state.json
    tmpFile,      \* .workflow/state.json.tmp
    saving,       \* where a save by another process stands: in the handler
                  \* that holds the record, or inside saveState
    sessState,    \* branch -> .workflow/sessions/<branch>/state.json
    sessSignals,  \* branch -> .workflow/sessions/<branch>/signals/
    curBranch,    \* git rev-parse --abbrev-ref HEAD
    pending,      \* markers that dispatched agents have been told to write
    out,          \* what the last command reported
    refines,      \* successful refine dispatches since the last clearWorkflow
    timeline,     \* directory -> .workflow/sessions/<directory>/timeline.json
    now,          \* the clock that new Date() reads
    workflowDir,  \* TRUE iff the directory .workflow/ exists
    switching,    \* where a branch switch stands
    clients,      \* the web server's set of connected sockets
    streamingInterval,  \* TRUE iff the web server holds an interval handle
    intervals,    \* setInterval timers of the web server not yet cleared
    sockets       \* socket -> "open" between its open and close events

vars ==
    <<signals, signalsDir, reviewFile, planFile, stateFile, tmpFile, saving,
      sessState, sessSignals, curBranch, pending, out, refines, timeline,
      now, workflowDir, switching,
                clients, streamingInterval, intervals, sockets>>

\* ------------------------------------------------------------------------
\* server.ts: the web server before any socket has connected
\* ------------------------------------------------------------------------

MaxSockets == 4

\* The WebSocket connections that clients make.
Sockets == 1..MaxSockets

NoServer ==
    /\ clients = {}
    /\ streamingInterval = FALSE
    /\ intervals = 0
    /\ sockets = [ws \in Sockets |-> "closed"]

\* ------------------------------------------------------------------------
\* state.ts
\* ------------------------------------------------------------------------

\* state.json: absent, not parseable, or a WorkflowState record.
NoFile == [kind |-> "missing"]

Corrupt == [kind |-> "corrupt"]

\* Of WorkflowState the fields phase, iteration, commitCount and branchName
\* are kept.  featureName, lastUpdated and the persisted copy of the signals
\* are left out: no handler reads the persisted copy, the keypress handler
\* replaces it by getSignals() before it calls a handler (KeySignals).
StateRecord(p, i, c, b) ==
    [kind |-> "record", phase |-> p, iteration |-> i, commitCount |-> c,
     branchName |-> b]

getInitialState == StateRecord("init", 1, 0, NoBranch)

loadState ==
    IF stateFile.kind = "missing" THEN getInitialState
    ELSE IF stateFile.kind = "corrupt" THEN getInitialState
    ELSE stateFile

\* No saveState is under way.
Idle == [pc |-> "idle"]

\* A session directory that does not exist.  Of one that does (path): its
\* signals directory (dir), in it the markers that are files and the
\* entries *.done that are directories.
NoSignalsDir == [path |-> FALSE, dir |-> FALSE, files |-> {}, subdirs |-> {}]

\* ------------------------------------------------------------------------
\* timeline.ts: where the timeline of a branch is kept
\* ------------------------------------------------------------------------

\* The branches whose timelines are followed.
TimelineBranches == {"main", "feature/a", "feature-a"}

\* A branch name as the sequence of its separators and of the runs of
\* characters between them.
BranchChars(b) ==
    CASE b = "main" -> <<"main">>
      [] b = "feature/a" -> <<"feature", "/", "a">>
      [] b = "feature-a" -> <<"feature", "-", "a">>

\* branch.replace(/[/\\]/g, "-")
sanitized(chars) ==
    [i \in DOMAIN chars |->
        IF chars[i] \in {"/", "\\"} THEN "-" ELSE chars[i]]

\* getBranchDir(branch): the directory under .workflow/sessions/, named by
\* the branch that is spelt like the sanitized name.
getBranchDir(b) ==
    CHOOSE d \in TimelineBranches : BranchChars(d) = sanitized(BranchChars(b))

TimelineDirs == {getBranchDir(b) : b \in TimelineBranches}

\* A timeline.json holding the JSON of a sequence of events.
TimelineFile(events) == [kind |-> "events", events |-> events]

NoTimelines == [d \in TimelineDirs |-> NoFile]

\* getSignals listing the markers whatever the state of the directory.
getSignals_ignoresDir == signals

getSignals == IF signalsDir = "dir" THEN signals ELSE {}

\* getReviewStatus looking for STATUS: FAIL before STATUS: PASS.
getReviewStatus_failFirst ==
    IF reviewFile.kind = "missing" THEN "PENDING"
    ELSE IF "review" \notin getSignals THEN "PENDING"
    ELSE IF reviewFile.kind = "unreadable" THEN "PENDING"
    ELSE IF "STATUS: FAIL" \in reviewFile.marks THEN "FAIL"
    ELSE IF "STATUS: PASS" \in reviewFile.marks
         THEN IF \/ "PASS_WITH_WARNINGS" \in reviewFile.marks
                 \/ ("Warnings" \in reviewFile.marks
                     /\ "Non-blocking" \in reviewFile.marks)
              THEN "PASS_WITH_WARNINGS"
              ELSE "PASS"
    ELSE "PENDING"

getReviewStatus ==
    IF reviewFile.kind = "missing" THEN "PENDING"
    ELSE IF "review" \notin getSignals THEN "PENDING"
    ELSE IF reviewFile.kind = "unreadable" THEN "PENDING"
    ELSE IF "STATUS: PASS" \in reviewFile.marks
         THEN IF \/ "PASS_WITH_WARNINGS" \in reviewFile.marks
                 \/ ("Warnings" \in reviewFile.marks
                     /\ "Non-blocking" \in reviewFile.marks)
              THEN "PASS_WITH_WARNINGS"
              ELSE "PASS"
    ELSE IF "STATUS: FAIL" \in reviewFile.marks THEN "FAIL"
    ELSE "PENDING"

\* determinePhase with the refine gate opened by any one refine marker.
determinePhase_anyRefine(sigs) ==
    IF "compound" \in sigs \/ "pr" \in sigs THEN "complete"
    ELSE IF "compound" \in sigs THEN "compounding"
    ELSE IF "review" \in sigs
            /\ getReviewStatus \in {"PASS", "PASS_WITH_WARNINGS"}
         THEN "compounding"
    ELSE IF "review" \in sigs /\ getReviewStatus = "FAIL"
         THEN IF refineSignals \cap sigs # {} THEN "reviewing" ELSE "refining"
    ELSE IF ImplSignals \subseteq sigs THEN "reviewing"
    ELSE IF "plan" \in sigs \/ planFile
         THEN IF "plan" \in sigs THEN "implementing" ELSE "planning"
    ELSE "init"

\* determinePhase with the passed-review rule placed after the
\* implementation rule.
determinePhase_implFirst(sigs) ==
    IF "compound" \in sigs \/ "pr" \in sigs THEN "complete"
    ELSE IF "compound" \in sigs THEN "compounding"
    ELSE IF "review" \in sigs /\ getReviewStatus = "FAIL"
         THEN IF refineSignals \subseteq sigs THEN "reviewing" ELSE "refining"
    ELSE IF ~(ImplSignals \subseteq sigs) /\ "plan" \in sigs THEN "implementing"
    ELSE IF "review" \in sigs
            /\ getReviewStatus \in {"PASS", "PASS_WITH_WARNINGS"}
         THEN "compounding"
    ELSE IF ImplSignals \subseteq sigs THEN "reviewing"
    ELSE IF "plan" \in sigs \/ planFile
         THEN IF "plan" \in sigs THEN "implementing" ELSE "planning"
    ELSE "init"

\* determinePhase with the implementation rule asking for the plan marker.
determinePhase_needsPlan(sigs) ==
    IF "compound" \in sigs \/ "pr" \in sigs THEN "complete"
    ELSE IF "compound" \in sigs THEN "compounding"
    ELSE IF "review" \in sigs
            /\ getReviewStatus \in {"PASS", "PASS_WITH_WARNINGS"}
         THEN "compounding"
    ELSE IF "review" \in sigs /\ getReviewStatus = "FAIL"
         THEN IF refineSignals \subseteq sigs THEN "reviewing" ELSE "refining"
    ELSE IF ImplSignals \subseteq sigs /\ "plan" \in sigs THEN "reviewing"
    ELSE IF "plan" \in sigs \/ planFile
         THEN IF "plan" \in sigs THEN "implementing" ELSE "planning"
    ELSE "init"

\* determinePhase without the final `return "init"`.
determinePhase_noDefault(sigs) ==
    IF "compound" \in sigs \/ "pr" \in sigs THEN "complete"
    ELSE IF "compound" \in sigs THEN "compounding"
    ELSE IF "review" \in sigs /\ getReviewStatus \in {"PASS", "PASS_WITH_WARNINGS"}
         THEN "compounding"
    ELSE IF "review" \in sigs /\ getReviewStatus = "FAIL"
         THEN IF refineSignals \subseteq sigs THEN "reviewing" ELSE "refining"
    ELSE IF ImplSignals \subseteq sigs THEN "reviewing"
    ELSE IF "plan" \in sigs \/ planFile
         THEN IF "plan" \in sigs THEN "implementing" ELSE "planning"
    ELSE "undefined"

\* determinePhase with the plan rule placed before the implementation
\* rule.
determinePhase_planFirst(sigs) ==
    IF "compound" \in sigs \/ "pr" \in sigs THEN "complete"
    ELSE IF "compound" \in sigs THEN "compounding"
    ELSE IF "review" \in sigs
            /\ getReviewStatus \in {"PASS", "PASS_WITH_WARNINGS"}
         THEN "compounding"
    ELSE IF "review" \in sigs /\ getReviewStatus = "FAIL"
         THEN IF refineSignals \subseteq sigs THEN "reviewing" ELSE "refining"
    ELSE IF "plan" \in sigs \/ planFile
         THEN IF "plan" \in sigs THEN "implementing" ELSE "planning"
    ELSE IF ImplSignals \subseteq sigs THEN "reviewing"
    ELSE "init"

determinePhase(sigs) ==
    IF "compound" \in sigs \/ "pr" \in sigs THEN "complete"
    ELSE IF "compound" \in sigs THEN "compounding"
    ELSE IF "review" \in sigs
            /\ getReviewStatus \in {"PASS", "PASS_WITH_WARNINGS"}
         THEN "compounding"
    ELSE IF "review" \in sigs /\ getReviewStatus = "FAIL"
         THEN IF refineSignals \subseteq sigs THEN "reviewing" ELSE "refining"
    ELSE IF ImplSignals \subseteq sigs THEN "reviewing"
    ELSE IF "plan" \in sigs \/ planFile
         THEN IF "plan" \in sigs THEN "implementing" ELSE "planning"
    ELSE "init"

\* ------------------------------------------------------------------------
\* What a command reports
\* ------------------------------------------------------------------------

Report(op, res) == [op |-> op, res |-> res]

NoOutput == Report("none", "none")

\* ------------------------------------------------------------------------
\* cli.ts: ce-orchestrate status
\* ------------------------------------------------------------------------

StatusCmd ==
    /\ out' = Report("status", determinePhase(getSignals))
    /\ UNCHANGED <<signals, signalsDir, reviewFile, planFile, stateFile,
                   tmpFile, saving, sessState, sessSignals, curBranch,
                   pending, refines, timeline, now,
                workflowDir, switching,
                clients, streamingInterval, intervals, sockets>>

\* ------------------------------------------------------------------------
\* state.ts: writers
\* ------------------------------------------------------------------------

\* saveState(st): state.json is replaced by st (lastUpdated is not modelled).
saveState(st) == stateFile' = st

\* clearWorkflow: every marker is removed and the initial record is saved.
\* PLAN.md and REVIEW.md are left in place.
clearWorkflow ==
    /\ signals' = {}
    /\ saveState(getInitialState)
    /\ refines' = 0

\* ------------------------------------------------------------------------
\* git.ts: the version-control collaborator
\* ------------------------------------------------------------------------

\* The branch createFeatureBranch creates from main.
FeatureBranch == "compound/x"

\* What getCommitCount() may return.
CommitCounts == 0 .. MaxCommits

\* state.commitCount after an optional commit: unchanged when nothing was
\* committed or the commit failed, getCommitCount() otherwise.
AfterCommit(st) == {st.commitCount} \cup CommitCounts

\* ------------------------------------------------------------------------
\* orchestrator.ts: the keypress handler and the command handlers
\* ------------------------------------------------------------------------

\* The state a handler is given: state = loadState(); state.signals =
\* getSignals().
KeyState == loadState

KeySignals == getSignals

Frame_Files ==
    UNCHANGED <<signalsDir, reviewFile, planFile, tmpFile, saving, sessState,
                sessSignals, timeline, now,
                workflowDir, switching,
                clients, streamingInterval, intervals, sockets>>

handlePlanApproved(st) ==
    IF ~planFile
    THEN /\ out' = Report("plan", "no_plan")
         /\ UNCHANGED <<signals, stateFile, curBranch, pending, refines>>
    ELSE \/ /\ curBranch = "main"
            /\ out' = Report("plan", "branch_failed")
            /\ UNCHANGED <<signals, stateFile, curBranch, pending, refines>>
         \/ /\ curBranch' = IF curBranch = "main" THEN FeatureBranch
                            ELSE curBranch
            /\ signals' = signals \cup {"plan"}
            /\ pending' = pending \cup ImplSignals
            /\ \E c \in AfterCommit(st) :
                 saveState([st EXCEPT !.branchName = curBranch',
                                      !.commitCount = c,
                                      !.phase = "implementing"])
            /\ out' = Report("plan", "dispatched")
            /\ UNCHANGED refines

KeyPlan ==
    /\ KeyState.phase = "planning" \/ "plan" \notin KeySignals
    /\ handlePlanApproved(KeyState)
    /\ Frame_Files

handleDispatchReview(st) ==
    /\ pending' = pending \cup {"review"}
    /\ \E c \in (IF st.phase = "implementing" THEN AfterCommit(st)
                 ELSE {st.commitCount}) :
         saveState([st EXCEPT !.commitCount = c, !.phase = "reviewing"])
    /\ out' = Report("review", "dispatched")
    /\ UNCHANGED <<signals, curBranch, refines>>

KeyReview ==
    /\ KeyState.phase \in {"implementing", "refining"}
    /\ handleDispatchReview(KeyState)
    /\ Frame_Files

\* handleDispatchRefine with the iteration test off by one.
handleDispatchRefine_offByOne(st) ==
    IF getReviewStatus # "FAIL"
    THEN /\ out' = Report("refine", "not_failed")
         /\ UNCHANGED <<signals, stateFile, curBranch, pending, refines>>
    ELSE IF st.iteration > MaxIterations
    THEN /\ out' = Report("refine", "max_iterations")
         /\ UNCHANGED <<signals, stateFile, curBranch, pending, refines>>
    ELSE /\ refines < MaxRefines
         /\ pending' = pending \cup refineSignals
         /\ saveState([st EXCEPT !.iteration = st.iteration + 1,
                                 !.phase = "refining"])
         /\ refines' = refines + 1
         /\ out' = Report("refine", "dispatched")
         /\ UNCHANGED <<signals, curBranch>>

\* handleDispatchRefine without the assignment state.phase = "refining".
handleDispatchRefine_keepsPhase(st) ==
    IF getReviewStatus # "FAIL"
    THEN /\ out' = Report("refine", "not_failed")
         /\ UNCHANGED <<signals, stateFile, curBranch, pending, refines>>
    ELSE IF st.iteration >= MaxIterations
    THEN /\ out' = Report("refine", "max_iterations")
         /\ UNCHANGED <<signals, stateFile, curBranch, pending, refines>>
    ELSE /\ refines < MaxRefines
         /\ pending' = pending \cup refineSignals
         /\ saveState([st EXCEPT !.iteration = st.iteration + 1])
         /\ refines' = refines + 1
         /\ out' = Report("refine", "dispatched")
         /\ UNCHANGED <<signals, curBranch>>

handleDispatchRefine(st) ==
    IF getReviewStatus # "FAIL"
    THEN /\ out' = Report("refine", "not_failed")
         /\ UNCHANGED <<signals, stateFile, curBranch, pending, refines>>
    ELSE IF st.iteration >= MaxIterations
    THEN /\ out' = Report("refine", "max_iterations")
         /\ UNCHANGED <<signals, stateFile, curBranch, pending, refines>>
    ELSE /\ refines < MaxRefines
         /\ pending' = pending \cup refineSignals
         /\ saveState([st EXCEPT !.iteration = st.iteration + 1,
                                 !.phase = "refining"])
         /\ refines' = refines + 1
         /\ out' = Report("refine", "dispatched")
         /\ UNCHANGED <<signals, curBranch>>

KeyRefine ==
    /\ handleDispatchRefine(KeyState)
    /\ Frame_Files

\* handleDispatchCompound creating the marker before it looks at the review.
handleDispatchCompound_marksFirst(st) ==
    IF getReviewStatus \notin {"PASS", "PASS_WITH_WARNINGS"}
    THEN /\ out' = Report("compound", "not_passed")
         /\ signals' = signals \cup {"compound"}
         /\ UNCHANGED <<stateFile, curBranch, pending, refines>>
    ELSE /\ signals' = signals \cup {"compound"}
         /\ saveState([st EXCEPT !.phase = "compounding"])
         /\ out' = Report("compound", "dispatched")
         /\ UNCHANGED <<curBranch, pending, refines>>

handleDispatchCompound(st) ==
    IF getReviewStatus \notin {"PASS", "PASS_WITH_WARNINGS"}
    THEN /\ out' = Report("compound", "not_passed")
         /\ UNCHANGED <<signals, stateFile, curBranch, pending, refines>>
    ELSE /\ signals' = signals \cup {"compound"}
         /\ saveState([st EXCEPT !.phase = "compounding"])
         /\ out' = Report("compound", "dispatched")
         /\ UNCHANGED <<curBranch, pending, refines>>

KeyCompound ==
    /\ handleDispatchCompound(KeyState)
    /\ Frame_Files

\* handleCreatePR marking the workflow complete whatever createPullRequest
\* returns.
handleCreatePR_marksAnyway(st) ==
    IF "compound" \notin KeySignals
    THEN /\ out' = Report("pr", "no_compound")
         /\ UNCHANGED <<signals, stateFile, curBranch, pending, refines>>
    ELSE /\ signals' = signals \cup {"pr"}
         /\ saveState([st EXCEPT !.phase = "complete"])
         /\ out' \in {Report("pr", "created"), Report("pr", "failed")}
         /\ UNCHANGED <<curBranch, pending, refines>>

handleCreatePR(st) ==
    IF "compound" \notin KeySignals
    THEN /\ out' = Report("pr", "no_compound")
         /\ UNCHANGED <<signals, stateFile, curBranch, pending, refines>>
    ELSE \/ /\ signals' = signals \cup {"pr"}
            /\ saveState([st EXCEPT !.phase = "complete"])
            /\ out' = Report("pr", "created")
            /\ UNCHANGED <<curBranch, pending, refines>>
         \/ /\ out' = Report("pr", "failed")
            /\ UNCHANGED <<signals, stateFile, curBranch, pending, refines>>

KeyCreatePR ==
    /\ handleCreatePR(KeyState)
    /\ Frame_Files

handleManualCommit(st) ==
    IF st.phase = "init"
    THEN /\ out' = Report("commit", "nothing_yet")
         /\ UNCHANGED <<signals, stateFile, curBranch, pending, refines>>
    ELSE /\ \E c \in AfterCommit(st) : saveState([st EXCEPT !.commitCount = c])
         /\ out' = Report("commit", "done")
         /\ UNCHANGED <<signals, curBranch, pending, refines>>

KeyCommit ==
    /\ handleManualCommit(KeyState)
    /\ Frame_Files

\* refresh_status: state = loadState(); state.signals = getSignals();
\* state.commitCount = getCommitCount(), all in memory; the screen is
\* rendered from it and nothing is written.
KeyRefresh ==
    /\ out' = Report("refresh", KeyState.phase)
    /\ UNCHANGED <<signals, stateFile, curBranch, pending, refines>>
    /\ Frame_Files

\* handleNewFeature (answer y), handleClearSession (answer y), the CLI's
\* reset command and the web server's clear_session all call clearWorkflow.
ClearWorkflowCmd ==
    /\ Cardinality(pending) <= MaxBusyAtReset
    /\ clearWorkflow
    /\ out' = Report("clear", "cleared")
    /\ UNCHANGED <<curBranch, pending>>
    /\ Frame_Files

\* ------------------------------------------------------------------------
\* cli.ts: ce-orchestrate init, run in a directory that has .workflow/
\* ------------------------------------------------------------------------

InitCmd ==
    /\ Cardinality(pending) <= MaxBusyAtReset
    /\ saveState(getInitialState)
    /\ out' = Report("init", "initialized")
    /\ UNCHANGED <<signals, curBranch, pending, refines>>
    /\ Frame_Files

\* ------------------------------------------------------------------------
\* workers.ts: the agents.  An agent that was dispatched writes its
\* artifact and then the marker its prompt names.
\* ------------------------------------------------------------------------

\* The texts a reviewer writes: a verdict, or a text without one yet.
ReviewerTexts ==
    {{}, {"STATUS: PASS"}, {"STATUS: PASS", "PASS_WITH_WARNINGS"},
     {"STATUS: FAIL"}}

Frame_Agent ==
    UNCHANGED <<signalsDir, stateFile, tmpFile, saving, sessState,
                sessSignals, curBranch, out, refines, timeline, now,
                workflowDir, switching,
                clients, streamingInterval, intervals, sockets>>

PlannerWritesPlan ==
    /\ ~planFile
    /\ planFile' = TRUE
    /\ UNCHANGED <<signals, reviewFile, pending>>
    /\ Frame_Agent

PlannerSignals ==
    /\ planFile
    /\ "plan" \notin signals
    /\ signals' = signals \cup {"plan"}
    /\ UNCHANGED <<reviewFile, planFile, pending>>
    /\ Frame_Agent

WorkerDone ==
    \E n \in pending \ {"review"} :
        /\ signals' = signals \cup {n}
        /\ pending' = pending \ {n}
        /\ UNCHANGED <<reviewFile, planFile>>
        /\ Frame_Agent

ReviewerWrites ==
    \E m \in ReviewerTexts :
        /\ "review" \in pending
        /\ reviewFile # ReviewText(m)
        /\ reviewFile' = ReviewText(m)
        /\ UNCHANGED <<signals, planFile, pending>>
        /\ Frame_Agent

ReviewerDone ==
    /\ "review" \in pending
    /\ signals' = signals \cup {"review"}
    /\ pending' = pending \ {"review"}
    /\ UNCHANGED <<reviewFile, planFile>>
    /\ Frame_Agent

\* ------------------------------------------------------------------------
\* The workflow: an initialized project, the orchestrator's keys, the CLI
\* and the agents.
\* ------------------------------------------------------------------------

Init ==
    /\ signals = {}
    /\ reviewFile = NoReview
    /\ planFile = FALSE
    /\ signalsDir = "dir"
    /\ stateFile = getInitialState
    /\ tmpFile = NoFile
    /\ saving = Idle
    /\ sessState = [b \in Branches |-> NoFile]
    /\ sessSignals = [b \in Branches |-> NoSignalsDir]
    /\ curBranch = "main"
    /\ pending = {}
    /\ out = NoOutput
    /\ refines = 0
    /\ timeline = NoTimelines
    /\ now = 0
    /\ workflowDir = TRUE
    /\ switching = Idle
    /\ NoServer

Next ==
    \/ KeyPlan
    \/ KeyReview
    \/ KeyRefine
    \/ KeyCompound
    \/ KeyCreatePR
    \/ KeyCommit
    \/ KeyRefresh
    \/ ClearWorkflowCmd
    \/ InitCmd
    \/ PlannerWritesPlan
    \/ PlannerSignals
    \/ WorkerDone
    \/ ReviewerWrites
    \/ ReviewerDone

Spec == Init /\ [][Next]_vars

\* ------------------------------------------------------------------------
\* The phase engine on every input: any set of markers, any review
\* artifact, plan artifact present or not.
\* ------------------------------------------------------------------------

InitPhase ==
    /\ signals \in SUBSET SignalNames
    /\ reviewFile \in ReviewFiles
    /\ planFile \in BOOLEAN
    /\ signalsDir = "dir"
    /\ stateFile = getInitialState
    /\ tmpFile = NoFile
    /\ saving = Idle
    /\ sessState = [b \in Branches |-> NoFile]
    /\ sessSignals = [b \in Branches |-> NoSignalsDir]
    /\ curBranch = "main"
    /\ pending = {}
    /\ out = NoOutput
    /\ refines = 0
    /\ timeline = NoTimelines
    /\ now = 0
    /\ workflowDir = TRUE
    /\ switching = Idle
    /\ NoServer

NextPhase == StatusCmd

SpecPhase == InitPhase /\ [][NextPhase]_vars

\* web-server.ts, getDashboardState: the field reviewStatus of the payload.
DashboardReviewStatus ==
    /\ out' = Report("review_status", getReviewStatus)
    /\ UNCHANGED <<signals, signalsDir, reviewFile, planFile, stateFile,
                   tmpFile, saving, sessState, sessSignals, curBranch,
                   pending, refines, timeline, now,
                workflowDir, switching,
                clients, streamingInterval, intervals, sockets>>

NextReview == DashboardReviewStatus

SpecReview == InitPhase /\ [][NextReview]_vars

\* ------------------------------------------------------------------------
\* saveState step by step, with a loadState in another process (the
\* orchestrator, the web server and the CLI run on the same .workflow/)
\* ------------------------------------------------------------------------

\* The records the writer saves.
SavedRecords ==
    {StateRecord(p, i, 0, NoBranch) :
        p \in {"init", "implementing", "reviewing", "refining"},
        i \in 1 .. MaxIterations}

Frame_Save ==
    UNCHANGED <<signals, signalsDir, reviewFile, planFile, sessState,
                sessSignals, curBranch, pending, refines, timeline, now,
                workflowDir, switching,
                clients, streamingInterval, intervals, sockets>>

\* writeFileSync(tempPath, JSON.stringify(updatedState))
saveState_writeTemp ==
    \E st \in SavedRecords :
        /\ saving = Idle
        /\ tmpFile' = st
        /\ saving' = [pc |-> "temp", old |-> stateFile, new |-> st]
        /\ UNCHANGED <<stateFile, out>>
        /\ Frame_Save

\* writeFileSync(statePath, ...) opens state.json for writing, which
\* truncates it: until the content is written the file does not parse.
saveState_openTarget ==
    /\ saving.pc = "temp"
    /\ stateFile' = Corrupt
    /\ saving' = [saving EXCEPT !.pc = "open"]
    /\ UNCHANGED <<tmpFile, out>>
    /\ Frame_Save

\* ... and writes what readFileSync(tempPath) returned.
saveState_writeTarget ==
    /\ saving.pc = "open"
    /\ stateFile' = tmpFile
    /\ saving' = [saving EXCEPT !.pc = "written"]
    /\ UNCHANGED <<tmpFile, out>>
    /\ Frame_Save

\* unlinkSync(tempPath)
saveState_unlinkTemp ==
    /\ saving.pc = "written"
    /\ tmpFile' = NoFile
    /\ saving' = Idle
    /\ UNCHANGED <<stateFile, out>>
    /\ Frame_Save

\* loadState() in another process.
LoadStateCmd ==
    /\ out' = Report("loadState", loadState)
    /\ UNCHANGED <<stateFile, tmpFile, saving>>
    /\ Frame_Save

NextSave ==
    \/ saveState_writeTemp
    \/ saveState_openTarget
    \/ saveState_writeTarget
    \/ saveState_unlinkTemp
    \/ LoadStateCmd

SpecSave == Init /\ [][NextSave]_vars

\* ------------------------------------------------------------------------
\* The signal store and the three readers on every kind of .workflow/
\* content: missing, unreadable and unparseable files included
\* ------------------------------------------------------------------------

\* The marker names the store operations are called with.
StoreNames == {"plan", "backend", "review"}

Frame_Store ==
    UNCHANGED <<reviewFile, planFile, stateFile, tmpFile, saving, sessState,
                sessSignals, curBranch, pending, refines, timeline, now,
                workflowDir, switching,
                clients, streamingInterval, intervals, sockets>>

\* createSignal(name): the directory is created if missing, the marker is
\* written (again).
createSignal(n) ==
    /\ signalsDir' = IF signalsDir = "missing" THEN "dir" ELSE signalsDir
    /\ signals' = signals \cup {n}

\* clearSignal unlinking without the existsSync test.
clearSignal_noCheck(n) ==
    IF n \in signals
    THEN /\ signals' = signals \ {n}
         /\ UNCHANGED signalsDir
         /\ out' = Report("clearSignal", n)
    ELSE /\ UNCHANGED <<signals, signalsDir>>
         /\ out' = Report("clearSignal", "ENOENT")

\* clearSignal(name): the marker is unlinked if it exists.
clearSignal(n) ==
    /\ signals' = signals \ {n}
    /\ UNCHANGED signalsDir
    /\ out' = Report("clearSignal", n)

\* clearAllSignals(): returns if the directory is missing; a failing
\* readdirSync is caught and nothing is unlinked.
clearAllSignals ==
    /\ signals' = IF signalsDir = "dir" THEN {} ELSE signals
    /\ UNCHANGED signalsDir
    /\ out' = Report("clearAllSignals", "done")

CreateSignalCmd ==
    \E n \in StoreNames :
        /\ createSignal(n)
        /\ out' = Report("createSignal", n)
        /\ Frame_Store

\* The markers written while sessions are saved and loaded.
SessionMarkers == {"plan", "review"}

SessionSignalCmd ==
    \E n \in SessionMarkers :
        /\ createSignal(n)
        /\ out' = Report("createSignal", n)
        /\ Frame_Store

ClearSignalCmd == \E n \in StoreNames : clearSignal(n) /\ Frame_Store

ClearAllSignalsCmd == clearAllSignals /\ Frame_Store

GetSignalsCmd ==
    /\ out' = Report("getSignals", getSignals)
    /\ UNCHANGED <<signals, signalsDir>>
    /\ Frame_Store

InitStore ==
    /\ signalsDir \in {"dir", "missing", "unreadable"}
    /\ signals \in SUBSET StoreNames
    /\ signalsDir = "missing" => signals = {}
    /\ reviewFile \in {NoReview, Unreadable, ReviewText({"STATUS: PASS"}),
                       ReviewText({"STATUS: FAIL"})}
    /\ planFile = FALSE
    /\ stateFile \in {NoFile, Corrupt, getInitialState,
                      StateRecord("refining", 2, 0, NoBranch)}
    /\ tmpFile = NoFile
    /\ saving = Idle
    /\ sessState = [b \in Branches |-> NoFile]
    /\ sessSignals = [b \in Branches |-> NoSignalsDir]
    /\ curBranch = "main"
    /\ pending = {}
    /\ out = NoOutput
    /\ refines = 0
    /\ timeline = NoTimelines
    /\ now = 0
    /\ workflowDir = TRUE
    /\ switching = Idle
    /\ NoServer

NextStore ==
    \/ CreateSignalCmd
    \/ ClearSignalCmd
    \/ ClearAllSignalsCmd
    \/ GetSignalsCmd
    \/ DashboardReviewStatus
    \/ LoadStateCmd

SpecStore == InitStore /\ [][NextStore]_vars

\* ------------------------------------------------------------------------
\* Branch sessions: .workflow/sessions/<branch>/ written and read by
\* saveSessionToBranch and loadSessionFromBranch
\* ------------------------------------------------------------------------

\* The marker that the session name "feature/a/signals/pr.done" stands for
\* inside the session of "feature/a".
NestedHost == "feature/a"

NestedMarker == "pr"

NestedName == "feature/a/signals/pr.done"

\* The names sessions are saved and loaded under.  getBranchSessionPath
\* joins the name to .workflow/sessions/ as it is, so the directory of
\* NestedName is the entry pr.done of the signals directory of NestedHost.
SessionNames == {"feature", "feature/a", NestedName}

\* The names whose session directory contains the directory of b.
Ancestors(b) ==
    CASE b = "feature" -> {}
      [] b = "feature/a" -> {"feature"}
      [] b = NestedName -> {"feature", "feature/a"}
      [] b = "main" -> {}

\* The names whose session directory lies inside the directory of b.
Descendants(b) == {d \in SessionNames : b \in Ancestors(d)}

\* The markers a load of session b recreates: every entry of its signals
\* directory whose name ends in .done, directories included.
SessionSignals(b) == sessSignals[b].files \cup sessSignals[b].subdirs

\* What loadSessionFromBranch(b) reads.
Snapshot(b) ==
    [state |-> sessState[b], dir |-> sessSignals[b].dir,
     signals |-> SessionSignals(b)]

Frame_Session ==
    UNCHANGED <<signalsDir, reviewFile, planFile, tmpFile, saving, curBranch,
                pending, refines, timeline, now,
                workflowDir, switching,
                clients, streamingInterval, intervals, sockets>>

\* mkdirSync(sessionPath, {recursive: true}) for the nested name: the
\* signals directory of the host gets the directory pr.done.
MkSessionDir(ss, b) ==
    [d \in DOMAIN ss |->
        IF d = NestedHost /\ b = NestedName
        THEN [ss[d] EXCEPT !.path = TRUE, !.dir = TRUE,
                           !.subdirs = @ \cup {NestedMarker}]
        ELSE IF d = b \/ d \in Ancestors(b)
        THEN [ss[d] EXCEPT !.path = TRUE]
        ELSE ss[d]]

\* saveSessionToBranch emptying the live markers after copying them.
saveSessionToBranch_moves(b) ==
    /\ sessState' = [sessState EXCEPT ![b] = StateRecord(loadState.phase,
                        loadState.iteration, loadState.commitCount, b)]
    /\ sessSignals' =
         IF getSignals = {} THEN MkSessionDir(sessSignals, b)
         ELSE [MkSessionDir(sessSignals, b) EXCEPT ![b] =
                 [@ EXCEPT !.dir = TRUE, !.files = @ \cup getSignals]]
    /\ signals' = {}
    /\ out' = Report("save_session", b)
    /\ UNCHANGED stateFile

\* saveSessionToBranch(branch).  mkdirSync throws when the session path is
\* an existing marker file; writeFileSync throws on a marker name that is a
\* directory, after state.json and any of the other markers were written.
saveSessionToBranch(b) ==
    IF b = NestedName /\ NestedMarker \in sessSignals[NestedHost].files
    THEN /\ out' = Report("save_session", "failed")
         /\ UNCHANGED <<signals, stateFile, sessState, sessSignals>>
    ELSE /\ sessState' = [sessState EXCEPT ![b] = StateRecord(loadState.phase,
                             loadState.iteration, loadState.commitCount, b)]
         /\ IF getSignals \cap sessSignals[b].subdirs = {}
            THEN /\ sessSignals' =
                      IF getSignals = {} THEN MkSessionDir(sessSignals, b)
                      ELSE [MkSessionDir(sessSignals, b) EXCEPT ![b] =
                              [@ EXCEPT !.dir = TRUE,
                                        !.files = @ \cup getSignals]]
                 /\ out' = Report("save_session", b)
            ELSE /\ \E w \in SUBSET (getSignals \ sessSignals[b].subdirs) :
                      sessSignals' = [sessSignals EXCEPT ![b] =
                          [@ EXCEPT !.files = @ \cup w]]
                 /\ out' = Report("save_session", "failed")
         /\ UNCHANGED <<signals, stateFile>>

\* loadSessionFromBranch(branch): null without a session state.json;
\* otherwise the saved record becomes state.json and, if the session has a
\* signals directory, the live markers are cleared and one is created for
\* each entry of it.
loadSessionFromBranch(b) ==
    IF sessState[b].kind # "record"
    THEN /\ out' = Report("load_session", "no_session")
         /\ UNCHANGED <<signals, stateFile, sessState, sessSignals>>
    ELSE /\ saveState(sessState[b])
         /\ signals' = IF sessSignals[b].dir THEN SessionSignals(b)
                       ELSE signals
         /\ out' = Report("load_session", b)
         /\ UNCHANGED <<sessState, sessSignals>>

\* clearBranchSession(branch): false if the session path does not exist;
\* otherwise every file below it is unlinked, those in subdirectories
\* included; the subdirectories stay, and the session directory is removed
\* only if it is left empty.
clearBranchSession(b) ==
    IF ~sessSignals[b].path
    THEN /\ out' = Report("clear_session", "no_session")
         /\ UNCHANGED <<signals, stateFile, sessState, sessSignals>>
    ELSE /\ sessState' = [d \in SessionNames |->
               IF d = b \/ d \in Descendants(b) THEN NoFile
               ELSE sessState[d]]
         /\ sessSignals' = [d \in SessionNames |->
               IF d = b
               THEN IF sessSignals[b].dir
                       \/ \E e \in Descendants(b) : sessSignals[e].path
                    THEN [sessSignals[d] EXCEPT !.files = {}]
                    ELSE [sessSignals[d] EXCEPT !.path = FALSE]
               ELSE IF d \in Descendants(b)
               THEN [sessSignals[d] EXCEPT !.files = {}]
               ELSE sessSignals[d]]
         /\ out' = Report("clear_session", b)
         /\ UNCHANGED <<signals, stateFile>>

\* web-server.ts, handleBranchAction
SaveSessionCmd ==
    \E b \in SessionNames : saveSessionToBranch(b) /\ Frame_Session

LoadSessionCmd ==
    \E b \in SessionNames : loadSessionFromBranch(b) /\ Frame_Session

ClearBranchSessionCmd ==
    \E b \in SessionNames : clearBranchSession(b) /\ Frame_Session

InitSession ==
    /\ signals = {}
    /\ signalsDir = "dir"
    /\ reviewFile = ReviewText({"STATUS: FAIL"})
    /\ planFile = FALSE
    /\ stateFile = getInitialState
    /\ tmpFile = NoFile
    /\ saving = Idle
    /\ sessState = [b \in SessionNames |-> NoFile]
    /\ sessSignals = [b \in SessionNames |-> NoSignalsDir]
    /\ curBranch = "main"
    /\ pending = {}
    /\ out = NoOutput
    /\ refines = 0
    /\ timeline = NoTimelines
    /\ now = 0
    /\ workflowDir = TRUE
    /\ switching = Idle
    /\ NoServer

NextSession ==
    \/ SaveSessionCmd
    \/ LoadSessionCmd
    \/ ClearBranchSessionCmd
    \/ SessionSignalCmd
    \/ KeyRefine
    \/ ClearWorkflowCmd

SpecSession == InitSession /\ [][NextSession]_vars

\* ------------------------------------------------------------------------
\* Switching branches: the current session is saved, the branch checked
\* out and the session saved under it, if any, loaded
\* ------------------------------------------------------------------------

\* The branches switched between.
SwitchBranches == {"main", "feature/a"}

Frame_Switch ==
    UNCHANGED <<signalsDir, reviewFile, planFile, tmpFile, saving, pending,
                refines, timeline, now, workflowDir,
                clients, streamingInterval, intervals, sockets>>

\* saveSessionToBranch(getCurrentBranch()) for a switch to target.
switchToBranch_save ==
    /\ switching = Idle
    /\ \E target \in SwitchBranches :
          switching' = [pc |-> "saved", target |-> target]
    /\ saveSessionToBranch(curBranch)
    /\ UNCHANGED curBranch
    /\ Frame_Switch

\* switchBranch(target): git checkout, which may fail.
switchToBranch_checkout ==
    /\ switching.pc = "saved"
    /\ \/ /\ curBranch' = switching.target
          /\ switching' = [switching EXCEPT !.pc = "switched"]
          /\ out' = Report("switchBranch", switching.target)
       \/ /\ switching' = Idle
          /\ out' = Report("switchBranch", "failed")
          /\ UNCHANGED curBranch
    /\ UNCHANGED <<signals, stateFile, sessState, sessSignals>>
    /\ Frame_Switch

\* loadSessionFromBranch(target): with no saved session the switch ends
\* with "Starting fresh session" and nothing else is done.
switchToBranch_load ==
    /\ switching.pc = "switched"
    /\ loadSessionFromBranch(curBranch)
    /\ switching' = Idle
    /\ UNCHANGED curBranch
    /\ Frame_Switch

InitSwitch ==
    /\ signals = {}
    /\ signalsDir = "dir"
    /\ reviewFile = ReviewText({"STATUS: FAIL"})
    /\ planFile = FALSE
    /\ stateFile = getInitialState
    /\ tmpFile = NoFile
    /\ saving = Idle
    /\ sessState = [b \in SwitchBranches |-> NoFile]
    /\ sessSignals = [b \in SwitchBranches |-> NoSignalsDir]
    /\ curBranch = "main"
    /\ pending = {}
    /\ out = NoOutput
    /\ refines = 0
    /\ timeline = NoTimelines
    /\ now = 0
    /\ workflowDir = TRUE
    /\ switching = Idle
    /\ NoServer

\* The commands given between switches.
BetweenSwitches ==
    /\ switching = Idle
    /\ SessionSignalCmd \/ KeyRefine \/ ClearWorkflowCmd

NextSwitch ==
    \/ switchToBranch_save
    \/ switchToBranch_checkout
    \/ switchToBranch_load
    \/ BetweenSwitches

SpecSwitch == InitSwitch /\ [][NextSwitch]_vars

\* ------------------------------------------------------------------------
\* A refine request of the orchestrator overlapping a reset by the web
\* server: two processes on the same .workflow/, no lock between them
\* ------------------------------------------------------------------------

Frame_Race ==
    UNCHANGED <<signalsDir, reviewFile, planFile, tmpFile, sessState,
                sessSignals, curBranch, timeline, now, workflowDir,
                switching,
                clients, streamingInterval, intervals, sockets>>

\* The keypress handler up to state.iteration++: state = loadState(), the
\* review outcome and the iteration are tested, and the record to be saved
\* is held in memory.
handleDispatchRefine_check ==
    /\ saving = Idle
    /\ IF getReviewStatus # "FAIL"
       THEN /\ out' = Report("refine", "not_failed")
            /\ UNCHANGED saving
       ELSE IF KeyState.iteration >= MaxIterations
       THEN /\ out' = Report("refine", "max_iterations")
            /\ UNCHANGED saving
       ELSE /\ refines < MaxRefines
            /\ saving' = [pc |-> "refine", old |-> stateFile,
                          new |-> [KeyState EXCEPT
                                     !.iteration = KeyState.iteration + 1,
                                     !.phase = "refining"]]
            /\ UNCHANGED out
    /\ UNCHANGED <<signals, stateFile, pending, refines>>
    /\ Frame_Race

\* The rest of handleDispatchRefine: the workers are dispatched and the
\* record held in memory is saved.
handleDispatchRefine_save ==
    /\ saving.pc = "refine"
    /\ pending' = pending \cup refineSignals
    /\ saveState(saving.new)
    /\ saving' = Idle
    /\ refines' = refines + 1
    /\ out' = Report("refine", "dispatched")
    /\ UNCHANGED signals
    /\ Frame_Race

\* web-server.ts, handleAction clear_session: clearWorkflow(), at any
\* moment of the orchestrator's handler.
WebClearSession ==
    /\ Cardinality(pending) <= MaxBusyAtReset
    /\ clearWorkflow
    /\ out' = Report("clear", "cleared")
    /\ UNCHANGED <<saving, pending>>
    /\ Frame_Race

\* The refine workers writing their markers.
RefineWorkerDone ==
    /\ saving = Idle
    /\ WorkerDone

\* The review has failed at iteration 1: plan approved, implementation and
\* review done, REVIEW.md says STATUS: FAIL.
InitRace ==
    /\ signals = {"plan"} \cup ImplSignals \cup {"review"}
    /\ signalsDir = "dir"
    /\ reviewFile = ReviewText({"STATUS: FAIL"})
    /\ planFile = TRUE
    /\ stateFile = StateRecord("reviewing", 1, 0, FeatureBranch)
    /\ tmpFile = NoFile
    /\ saving = Idle
    /\ sessState = [b \in Branches |-> NoFile]
    /\ sessSignals = [b \in Branches |-> NoSignalsDir]
    /\ curBranch = FeatureBranch
    /\ pending = {}
    /\ out = NoOutput
    /\ refines = 0
    /\ timeline = NoTimelines
    /\ now = 0
    /\ workflowDir = TRUE
    /\ switching = Idle
    /\ NoServer

NextRace ==
    \/ handleDispatchRefine_check
    \/ handleDispatchRefine_save
    \/ WebClearSession
    \/ RefineWorkerDone
    \/ SessionSignalCmd

SpecRace == InitRace /\ [][NextRace]_vars

\* ------------------------------------------------------------------------
\* Two saveState calls at once: the orchestrator and the web server share
\* state.json and state.json.tmp
\* ------------------------------------------------------------------------

Writers == {"orchestrator", "web"}

\* What each writer saves: the web server the initial record (clear_session),
\* the orchestrator the record of a handler.
WriterRecords(w) ==
    IF w = "web" THEN {getInitialState}
    ELSE SavedRecords \ {getInitialState}

\* writeFileSync(tempPath, JSON.stringify(updatedState))
saveState_temp(w) ==
    /\ saving[w].pc \in {"idle", "done", "raised"}
    /\ \E st \in WriterRecords(w) :
          /\ tmpFile' = st
          /\ saving' = [saving EXCEPT ![w] = [pc |-> "temp", new |-> st]]
    /\ UNCHANGED <<stateFile, out>>
    /\ Frame_Save

\* writeFileSync(statePath, readFileSync(tempPath)): what is in the
\* temporary file now is published; readFileSync throws if the file is
\* gone, and saveState with it.
saveState_copy(w) ==
    /\ saving[w].pc = "temp"
    /\ IF tmpFile = NoFile
       THEN /\ saving' = [saving EXCEPT ![w].pc = "raised"]
            /\ out' = Report("saveState", "ENOENT")
            /\ UNCHANGED stateFile
       ELSE /\ stateFile' = tmpFile
            /\ saving' = [saving EXCEPT ![w] =
                            [pc |-> "written", new |-> saving[w].new,
                             published |-> tmpFile]]
            /\ UNCHANGED out
    /\ UNCHANGED tmpFile
    /\ Frame_Save

\* try { unlinkSync(tempPath) } catch {}
saveState_unlink(w) ==
    /\ saving[w].pc = "written"
    /\ tmpFile' = NoFile
    /\ saving' = [saving EXCEPT ![w].pc = "done"]
    /\ out' = Report("saveState", w)
    /\ UNCHANGED stateFile
    /\ Frame_Save

WriterStep == \E w \in Writers : saveState_temp(w)

WriterCopy == \E w \in Writers : saveState_copy(w)

WriterUnlink == \E w \in Writers : saveState_unlink(w)

InitWriters ==
    /\ signals = {}
    /\ signalsDir = "dir"
    /\ reviewFile = NoReview
    /\ planFile = FALSE
    /\ stateFile = getInitialState
    /\ tmpFile = NoFile
    /\ saving = [w \in Writers |-> Idle]
    /\ sessState = [b \in Branches |-> NoFile]
    /\ sessSignals = [b \in Branches |-> NoSignalsDir]
    /\ curBranch = "main"
    /\ pending = {}
    /\ out = NoOutput
    /\ refines = 0
    /\ timeline = NoTimelines
    /\ now = 0
    /\ workflowDir = TRUE
    /\ switching = Idle
    /\ NoServer

NextWriters ==
    \/ WriterStep
    \/ WriterCopy
    \/ WriterUnlink

SpecWriters == InitWriters /\ [][NextWriters]_vars

\* ------------------------------------------------------------------------
\* One session run to its end: no reset, every review ends with a verdict
\* on file, and agents, external commands and the user are fair
\* ------------------------------------------------------------------------

\* The reviewer writes REVIEW.md with a verdict.
ReviewerConcludes ==
    \E m \in ReviewerTexts \ {{}} :
        /\ "review" \in pending
        /\ reviewFile # ReviewText(m)
        /\ reviewFile' = ReviewText(m)
        /\ UNCHANGED <<signals, planFile, pending>>
        /\ Frame_Agent

\* The reviewer creates review.done once REVIEW.md has a verdict.
ReviewerFinishes ==
    /\ reviewFile \in {ReviewText(m) : m \in ReviewerTexts \ {{}}}
    /\ ReviewerDone

\* Plan approval whose createFeatureBranch succeeds.
PlanDispatched == KeyPlan /\ out'.res = "dispatched"

\* PR creation whose push and gh succeed.
PRCreated == KeyCreatePR /\ out'.res = "created"

NextLive ==
    \/ KeyPlan
    \/ KeyReview
    \/ KeyRefine
    \/ KeyCompound
    \/ KeyCreatePR
    \/ KeyCommit
    \/ KeyRefresh
    \/ PlannerWritesPlan
    \/ PlannerSignals
    \/ WorkerDone
    \/ ReviewerConcludes
    \/ ReviewerFinishes

SpecLive ==
    /\ Init
    /\ [][NextLive]_vars
    /\ WF_vars(PlannerWritesPlan)
    /\ WF_vars(WorkerDone)
    /\ WF_vars(ReviewerConcludes)
    /\ WF_vars(ReviewerFinishes)
    /\ SF_vars(PlanDispatched)
    /\ SF_vars(PRCreated)
    /\ SF_vars(KeyReview /\ out'.res = "dispatched")
    /\ SF_vars(KeyRefine /\ out'.res = "dispatched")
    /\ SF_vars(KeyCompound /\ out'.res = "dispatched")

\* ------------------------------------------------------------------------
\* timeline.ts: the event log of a branch
\* ------------------------------------------------------------------------

\* TimelineEvent["type"], of which two are followed.
EventTypes == {"phase_change", "session_resume"}

\* loadTimeline(branch): [] if the file is missing or does not parse.
loadTimeline(b) ==
    LET file == timeline[getBranchDir(b)]
    IN  IF file.kind = "events" THEN file.events ELSE <<>>

\* saveTimeline(events, branch)
saveTimeline(events, b) ==
    timeline' = [timeline EXCEPT ![getBranchDir(b)] = TimelineFile(events)]

\* addTimelineEvent writing the new event alone.
addTimelineEvent_fresh(type, message) ==
    LET event == [timestamp |-> now + 1, type |-> type, message |-> message]
    IN  /\ saveTimeline(<<event>>, curBranch)
        /\ now' = now + 1
        /\ out' = Report("addTimelineEvent", event)

\* addTimelineEvent(type, message): the log of the current branch is read,
\* the event pushed and the whole log written back.
addTimelineEvent(type, message) ==
    LET event == [timestamp |-> now + 1, type |-> type, message |-> message]
    IN  /\ saveTimeline(Append(loadTimeline(curBranch), event), curBranch)
        /\ now' = now + 1
        /\ out' = Report("addTimelineEvent", event)

\* Array.prototype.slice(start): a negative start counts from the end, and
\* the start is clamped to 0 .. length.
slice(a, start) ==
    LET from == IF start < 0
                THEN IF Len(a) + start < 0 THEN 0 ELSE Len(a) + start
                ELSE IF start > Len(a) THEN Len(a) ELSE start
    IN  SubSeq(a, from + 1, Len(a))

\* getRecentEvents(limit, branch)
getRecentEvents(limit, b) == slice(loadTimeline(b), -limit)

Frame_Timeline ==
    UNCHANGED <<signals, signalsDir, reviewFile, planFile, stateFile, tmpFile,
                saving, sessState, sessSignals, pending, refines,
                workflowDir, switching,
                clients, streamingInterval, intervals, sockets>>

\* orchestrator.ts: switchToBranch records "Saved session for <branch>",
\* logPhaseChange records "Phase changed to: <phase>".
AddTimelineEventCmd ==
    /\ now < MaxEvents
    /\ \/ addTimelineEvent("session_resume", curBranch)
       \/ addTimelineEvent("phase_change", "reviewing")
    /\ UNCHANGED curBranch
    /\ Frame_Timeline

GetRecentEventsCmd ==
    /\ \E limit \in 0 .. MaxLimit, b \in TimelineBranches :
          out' = Report("getRecentEvents",
                        [limit |-> limit, branch |-> b,
                         events |-> getRecentEvents(limit, b)])
    /\ UNCHANGED <<curBranch, timeline, now>>
    /\ Frame_Timeline

\* export.ts, buildExportData: loadTimeline(branch)
LoadTimelineCmd ==
    /\ \E b \in TimelineBranches :
          out' = Report("loadTimeline",
                        [branch |-> b, events |-> loadTimeline(b)])
    /\ UNCHANGED <<curBranch, timeline, now>>
    /\ Frame_Timeline

\* git.ts, switchBranch: git checkout <branch>
SwitchBranchCmd ==
    /\ \E b \in TimelineBranches \ {curBranch} :
          /\ curBranch' = b
          /\ out' = Report("switchBranch", b)
    /\ UNCHANGED <<timeline, now>>
    /\ Frame_Timeline

InitTimeline ==
    /\ signals = {}
    /\ signalsDir = "dir"
    /\ reviewFile = NoReview
    /\ planFile = FALSE
    /\ stateFile = getInitialState
    /\ tmpFile = NoFile
    /\ saving = Idle
    /\ sessState = [b \in SessionNames |-> NoFile]
    /\ sessSignals = [b \in SessionNames |-> NoSignalsDir]
    /\ curBranch = "main"
    /\ pending = {}
    /\ out = NoOutput
    /\ refines = 0
    /\ timeline \in [TimelineDirs -> {NoFile, Corrupt}]
    /\ now = 0
    /\ workflowDir = TRUE
    /\ switching = Idle
    /\ NoServer

NextTimeline ==
    \/ AddTimelineEventCmd
    \/ GetRecentEventsCmd
    \/ LoadTimelineCmd
    \/ SwitchBranchCmd

SpecTimeline == InitTimeline /\ [][NextTimeline]_vars

\* ------------------------------------------------------------------------
\* cli.ts: the commands of ce-orchestrate, run in a directory that may have
\* no .workflow/
\* ------------------------------------------------------------------------

\* What a command prints and the status its process exits with.
CliReport(command, exit, report) ==
    Report("cli", [command |-> command, exit |-> exit, report |-> report])

Frame_Cli ==
    UNCHANGED <<reviewFile, planFile, tmpFile, saving, sessState, sessSignals,
                curBranch, pending, timeline, now, switching,
                clients, streamingInterval, intervals, sockets>>

\* init: .workflow/ and .workflow/signals/ are created if .workflow/ is
\* missing, and the initial record is saved.
CliInit ==
    /\ workflowDir' = TRUE
    /\ signalsDir' = IF signalsDir = "missing" THEN "dir" ELSE signalsDir
    /\ saveState(getInitialState)
    /\ out' = CliReport("init", 0, "initialized")
    /\ UNCHANGED <<signals, refines>>
    /\ Frame_Cli

\* start, start-internal and dashboard: exit(1) without .workflow/.
CliStart ==
    /\ out' = IF workflowDir THEN CliReport("start", 0, "started")
              ELSE CliReport("start", 1, "no_workflow_dir")
    /\ UNCHANGED <<workflowDir, signalsDir, signals, stateFile, refines>>
    /\ Frame_Cli

\* status: exit(1) without .workflow/, else the derived phase is printed.
CliStatus ==
    /\ out' = IF workflowDir
              THEN CliReport("status", 0, determinePhase(getSignals))
              ELSE CliReport("status", 1, "no_workflow_dir")
    /\ UNCHANGED <<workflowDir, signalsDir, signals, stateFile, refines>>
    /\ Frame_Cli

\* reset: exit(1) without .workflow/, else clearWorkflow().
CliReset ==
    /\ IF workflowDir
       THEN /\ clearWorkflow
            /\ out' = CliReport("reset", 0, "reset")
       ELSE /\ out' = CliReport("reset", 1, "no_workflow_dir")
            /\ UNCHANGED <<signals, stateFile, refines>>
    /\ UNCHANGED <<workflowDir, signalsDir>>
    /\ Frame_Cli

\* The names given to ce-orchestrate signal.
CliSignalNames == {"plan", "backend", "frontend", "review"}

\* signal <name>: createSignal(name), whose mkdirSync is recursive.
CliSignal ==
    /\ \E n \in CliSignalNames :
          /\ createSignal(n)
          /\ out' = CliReport("signal", 0, n)
    /\ workflowDir' = TRUE
    /\ UNCHANGED <<stateFile, refines>>
    /\ Frame_Cli

\* config: the merged configuration is printed.
CliConfig ==
    /\ out' = CliReport("config", 0, "printed")
    /\ UNCHANGED <<workflowDir, signalsDir, signals, stateFile, refines>>
    /\ Frame_Cli

\* A project directory in which init has not been run.
InitCli ==
    /\ signals = {}
    /\ signalsDir = "missing"
    /\ reviewFile = NoReview
    /\ planFile = FALSE
    /\ stateFile = NoFile
    /\ tmpFile = NoFile
    /\ saving = Idle
    /\ sessState = [b \in SessionNames |-> NoFile]
    /\ sessSignals = [b \in SessionNames |-> NoSignalsDir]
    /\ curBranch = "main"
    /\ pending = {}
    /\ out = NoOutput
    /\ refines = 0
    /\ timeline = NoTimelines
    /\ now = 0
    /\ workflowDir = FALSE
    /\ switching = Idle
    /\ NoServer

NextCli ==
    \/ CliInit
    \/ CliStart
    \/ CliStatus
    \/ CliReset
    \/ CliSignal
    \/ CliConfig

SpecCli == InitCli /\ [][NextCli]_vars

\* ------------------------------------------------------------------------
\* state.ts, createSignal on every marker name, from every set of markers
\* ------------------------------------------------------------------------

AddSignalCmd ==
    \E n \in SignalNames :
        /\ createSignal(n)
        /\ out' = Report("createSignal", n)
        /\ Frame_Store

NextForward == AddSignalCmd

SpecForward == InitPhase /\ [][NextForward]_vars

\* ------------------------------------------------------------------------
\* server.ts: connected clients and the streaming interval
\* ------------------------------------------------------------------------

Frame_Stream ==
    UNCHANGED <<signals, signalsDir, reviewFile, planFile, stateFile,
                tmpFile, saving, sessState, sessSignals, curBranch, pending,
                out, refines, timeline, now, workflowDir, switching>>

startStreaming ==
    IF streamingInterval
    THEN UNCHANGED <<streamingInterval, intervals>>
    ELSE /\ streamingInterval' = TRUE
         /\ intervals' = intervals + 1

stopStreaming ==
    IF streamingInterval
    THEN /\ streamingInterval' = FALSE
         /\ intervals' = intervals - 1
    ELSE UNCHANGED <<streamingInterval, intervals>>

\* websocket.open: the socket is added, the state and the buffers are sent
\* to it, and streaming starts if it is the only client.  A send that
\* throws ends the handler before the test of clients.size.
WsOpen(ws) ==
    /\ sockets[ws] = "closed"
    /\ sockets' = [sockets EXCEPT ![ws] = "open"]
    /\ clients' = clients \cup {ws}
    /\ \/ IF Cardinality(clients') = 1
          THEN startStreaming
          ELSE UNCHANGED <<streamingInterval, intervals>>
       \/ UNCHANGED <<streamingInterval, intervals>>
    /\ Frame_Stream

\* websocket.close.
WsClose(ws) ==
    /\ sockets[ws] = "open"
    /\ sockets' = [sockets EXCEPT ![ws] = "closed"]
    /\ clients' = clients \ {ws}
    /\ IF Cardinality(clients') = 0
       THEN stopStreaming
       ELSE UNCHANGED <<streamingInterval, intervals>>
    /\ Frame_Stream

\* broadcastState: every client whose send throws is deleted.
broadcastState ==
    /\ \E failed \in SUBSET clients : clients' = clients \ failed
    /\ UNCHANGED <<streamingInterval, intervals, sockets>>
    /\ Frame_Stream

\* The interval's callback: streamWindowOutput sends the output to every
\* client and deletes those whose send throws.
streamWindowOutput ==
    /\ intervals > 0
    /\ \E failed \in SUBSET clients : clients' = clients \ failed
    /\ UNCHANGED <<streamingInterval, intervals, sockets>>
    /\ Frame_Stream

WsOpenEvent == \E ws \in Sockets : WsOpen(ws)

WsCloseEvent == \E ws \in Sockets : WsClose(ws)

NextStream ==
    \/ WsOpenEvent
    \/ WsCloseEvent
    \/ broadcastState
    \/ streamWindowOutput

SpecStream == Init /\ [][NextStream]_vars

\* ------------------------------------------------------------------------
\* Properties of the phase engine (checked under SpecPhase)
\* ------------------------------------------------------------------------

\* The status command has printed the phase of the present inputs.
Evaluated == out.op = "status"

NoTerminalSignal == "compound" \notin signals /\ "pr" \notin signals

\* C1: whenever the compound marker is present and the pr marker is absent,
\* determinePhase returns compounding, whatever the other markers and the
\* review outcome are.
C1_CompoundWithoutPr ==
    (Evaluated /\ "compound" \in signals /\ "pr" \notin signals)
        => out.res = "compounding"

\* C3: with the review marker present, review outcome FAIL and neither
\* compound nor pr present, determinePhase returns reviewing exactly when
\* all three refine markers are present, and refining for every proper
\* subset of them.
C3_RefineGate ==
    (Evaluated /\ NoTerminalSignal /\ "review" \in signals
               /\ getReviewStatus = "FAIL")
        => /\ (refineSignals \subseteq signals) <=> (out.res = "reviewing")
           /\ ~(refineSignals \subseteq signals) <=> (out.res = "refining")

\* C3 witness: two of the three refine markers, and the phase is refining.
C3_Witness ==
    /\ Evaluated /\ NoTerminalSignal /\ "review" \in signals
    /\ getReviewStatus = "FAIL"
    /\ Cardinality(refineSignals \cap signals) = 2
    /\ out.res = "refining"

\* C4: with the review marker present, review outcome PASS or
\* PASS_WITH_WARNINGS and neither compound nor pr present, determinePhase
\* returns compounding for every combination of the other markers, also
\* when plan, backend, frontend or tests are absent.
C4_PassedReviewCompounds ==
    (Evaluated /\ NoTerminalSignal /\ "review" \in signals
               /\ getReviewStatus \in {"PASS", "PASS_WITH_WARNINGS"})
        => out.res = "compounding"

\* C4 witness: an inconsistent set (a passed review without backend, with
\* the plan marker) evaluated to compounding.
C4_Witness ==
    /\ Evaluated /\ NoTerminalSignal /\ "review" \in signals
    /\ getReviewStatus = "PASS_WITH_WARNINGS"
    /\ "plan" \in signals /\ "backend" \notin signals
    /\ out.res = "compounding"

\* C5: with neither compound nor pr present and review outcome PENDING,
\* determinePhase returns reviewing if backend, frontend and tests are all
\* present (even without plan), otherwise implementing if plan is present,
\* otherwise planning if PLAN.md exists, otherwise init.
C5_PendingLadder ==
    (Evaluated /\ NoTerminalSignal /\ getReviewStatus = "PENDING")
        => out.res =
             IF ImplSignals \subseteq signals THEN "reviewing"
             ELSE IF "plan" \in signals THEN "implementing"
             ELSE IF planFile THEN "planning"
             ELSE "init"

\* C5 witness: all three implementation markers without the plan marker.
C5_Witness ==
    /\ Evaluated /\ NoTerminalSignal /\ getReviewStatus = "PENDING"
    /\ ImplSignals \subseteq signals /\ "plan" \notin signals
    /\ out.res = "reviewing"

HappySignals(k) ==
    CASE k = 0 -> {}
      [] k = 1 -> {}
      [] k = 2 -> {"plan"}
      [] k = 3 -> {"plan"} \cup ImplSignals
      [] k = 4 -> {"plan", "review"} \cup ImplSignals
      [] k = 5 -> {"plan", "review", "compound"} \cup ImplSignals
      [] k = 6 -> {"plan", "review", "compound", "pr"} \cup ImplSignals

HappyPhase(k) ==
    CASE k = 0 -> "init"
      [] k = 1 -> "planning"
      [] k = 2 -> "implementing"
      [] k = 3 -> "reviewing"
      [] k = 4 -> "compounding"
      [] k = 5 -> "compounding"
      [] k = 6 -> "complete"

\* The files after step k of the happy path.
HappyState(k) ==
    /\ signals = HappySignals(k)
    /\ planFile = (k >= 1)
    /\ reviewFile = IF k >= 4 THEN ReviewText({"STATUS: PASS"}) ELSE NoReview

\* C2: on the happy path the derived phase is init with nothing, planning
\* once PLAN.md exists, implementing with plan, reviewing with backend,
\* frontend and tests, compounding with a passed review, still compounding
\* with compound, and complete with pr.
C2_HappyPath ==
    \A k \in 0 .. 6 : HappyState(k) => determinePhase(signals) = HappyPhase(k)

\* The step is a run of handleDispatchRefine: it reported, and the report or
\* the saved state is new.
RefineStep ==
    /\ out'.op = "refine"
    /\ <<out, stateFile>>' # <<out, stateFile>>

\* C7: with review outcome FAIL, a refine request succeeds and raises the
\* iteration by exactly one when the iteration is 1 or 2, and is refused,
\* leaving the state file as it is, when the iteration is 3, whatever the
\* persisted phase and the other markers are.
C7_RefineBound ==
    [][(RefineStep /\ getReviewStatus = "FAIL")
         => IF loadState.iteration \in {1, 2}
            THEN /\ out'.res = "dispatched"
                 /\ stateFile'.iteration = loadState.iteration + 1
            ELSE /\ loadState.iteration = 3
                 /\ out'.res = "max_iterations"
                 /\ stateFile' = stateFile]_vars

\* C7 witness: a refine request was refused at iteration 3 with a failed
\* review, the persisted phase not being reviewing.
C7_Witness ==
    /\ out = Report("refine", "max_iterations")
    /\ getReviewStatus = "FAIL"
    /\ stateFile.iteration = 3
    /\ stateFile.phase = "refining"

\* C8: in a run without clearWorkflow at most two refine dispatches
\* succeed; no other operation re-enables refinement.
C8_AtMostTwoRefines == refines <= 2

\* C9: the persisted iteration never decreases, except by clearWorkflow,
\* which sets it to 1.
C9_IterationMonotone ==
    [][loadState'.iteration < loadState.iteration
         => (out'.op = "clear" /\ loadState'.iteration = 1)]_vars

\* C10: from persisted phase reviewing with review outcome FAIL and
\* iteration 1 a refine request gives iteration 2 and phase refining
\* (persisted, and derived while no refine marker is there); with all three
\* refine markers the derived phase is reviewing; with the review artifact
\* rewritten to STATUS: PASS and the review marker kept it is compounding.
C10_RefineCycle ==
    /\ [][(/\ RefineStep
           /\ loadState.phase = "reviewing"
           /\ getReviewStatus = "FAIL"
           /\ loadState.iteration = 1)
            => /\ stateFile'.iteration = 2
               /\ stateFile'.phase = "refining"
               /\ (refineSignals \cap signals = {} /\ NoTerminalSignal)
                     => determinePhase(signals)' = "refining"]_vars
    /\ [](("review" \in signals /\ getReviewStatus = "FAIL"
             /\ refineSignals \subseteq signals /\ NoTerminalSignal)
            => determinePhase(signals) = "reviewing")
    /\ [](("review" \in signals /\ reviewFile = ReviewText({"STATUS: PASS"})
             /\ NoTerminalSignal)
            => determinePhase(signals) = "compounding")

\* C10 witness: the end of the cycle, one refine dispatched from iteration
\* 1, all refine markers written, the artifact rewritten to PASS.
C10_Witness ==
    /\ refines = 1
    /\ stateFile.iteration = 2
    /\ "review" \in signals
    /\ refineSignals \subseteq signals
    /\ reviewFile = ReviewText({"STATUS: PASS"})
    /\ NoTerminalSignal
    /\ determinePhase(signals) = "compounding"

\* A step of the handler that reports as op: it reported, and the report or
\* the saved state is new.
HandlerStep(op) ==
    /\ out'.op = op
    /\ <<out, stateFile>>' # <<out, stateFile>>

\* What a refused command must leave alone: the state file, the markers,
\* the workers' assignments, the artifacts and the branch.
RefusalLeaves ==
    UNCHANGED <<stateFile, signals, pending, reviewFile, planFile, curBranch>>

\* C11: a refused command changes nothing: a refine request with a review
\* outcome other than FAIL or at iteration 3, a compound request with an
\* outcome other than PASS or PASS_WITH_WARNINGS, and PR creation without
\* the compound marker each report the refusal and leave the state record,
\* the markers and the workers as they were.
C11_RefusalsChangeNothing ==
    [][/\ (HandlerStep("refine")
             /\ (getReviewStatus # "FAIL" \/ loadState.iteration = 3))
            => (out'.res \in {"not_failed", "max_iterations"} /\ RefusalLeaves)
       /\ (HandlerStep("compound")
             /\ getReviewStatus \notin {"PASS", "PASS_WITH_WARNINGS"})
            => (out'.res = "not_passed" /\ RefusalLeaves)
       /\ (HandlerStep("pr") /\ "compound" \notin signals)
            => (out'.res = "no_compound" /\ RefusalLeaves)]_vars

\* C11 witness: a compound request was refused on a failed review while
\* refine workers were still busy.
C11_Witness ==
    /\ out = Report("compound", "not_passed")
    /\ getReviewStatus = "FAIL"
    /\ "compound" \notin signals
    /\ stateFile.phase = "refining"
    /\ pending # {}

\* C12: a review dispatched while the persisted phase is refining happens
\* only when backend-refine, frontend-refine and tests-refine are all
\* present, leaves the iteration as it is and removes no marker.
C12_ReReviewNeedsRefineSignals ==
    [][(HandlerStep("review") /\ loadState.phase = "refining")
         => /\ refineSignals \subseteq signals
            /\ loadState'.iteration = loadState.iteration
            /\ signals \subseteq signals']_vars

\* The step is a command that saved the state record: plan approval, review
\* dispatch, refine dispatch, compound dispatch or PR creation went through.
PersistingStep ==
    /\ \E op \in {"plan", "review", "refine", "compound", "pr"} :
         HandlerStep(op)
    /\ out'.res \in {"dispatched", "created"}

\* C13: right after every command that saves the state record the saved
\* phase is the phase determinePhase derives from the markers and the
\* review artifact of that moment.
C13_PhaseCache ==
    [][PersistingStep => loadState'.phase = determinePhase(signals)']_vars

\* ------------------------------------------------------------------------
\* The review classifier on every input (checked under SpecReview)
\* ------------------------------------------------------------------------

\* C15: the review outcome is PENDING if the review marker is absent or
\* REVIEW.md does not exist; otherwise PASS_WITH_WARNINGS if the text has
\* STATUS: PASS together with PASS_WITH_WARNINGS or with both Warnings and
\* Non-blocking; otherwise PASS if it has STATUS: PASS; otherwise FAIL if
\* it has STATUS: FAIL; otherwise PENDING.
C15_ReviewClassification ==
    out.op = "review_status" =>
        out.res =
            IF "review" \notin signals \/ reviewFile = NoReview THEN "PENDING"
            ELSE IF /\ "STATUS: PASS" \in reviewFile.marks
                    /\ \/ "PASS_WITH_WARNINGS" \in reviewFile.marks
                       \/ {"Warnings", "Non-blocking"} \subseteq reviewFile.marks
                 THEN "PASS_WITH_WARNINGS"
            ELSE IF "STATUS: PASS" \in reviewFile.marks THEN "PASS"
            ELSE IF "STATUS: FAIL" \in reviewFile.marks THEN "FAIL"
            ELSE "PENDING"

\* C15 witness: a text with STATUS: PASS, STATUS: FAIL, Warnings and
\* Non-blocking was classified, the review marker present.
C15_Witness ==
    /\ out = Report("review_status", "PASS_WITH_WARNINGS")
    /\ "review" \in signals
    /\ reviewFile =
         ReviewText({"STATUS: PASS", "STATUS: FAIL", "Warnings", "Non-blocking"})

\* ------------------------------------------------------------------------
\* Concurrent readers of state.json (checked under SpecSave)
\* ------------------------------------------------------------------------

\* The complete records a reader may be given: the one persisted before
\* the save under way, or the one being saved.
CompleteRecords ==
    IF saving.pc = "idle" THEN {stateFile} ELSE {saving.old, saving.new}

\* C14: a loadState that overlaps a saveState of another process returns
\* the complete record persisted before the save or the complete record
\* being saved, never the fallback record of a failed parse.
C14_SaveIsAtomic ==
    [][(/\ out'.op = "loadState"
        /\ (out.op # "loadState" \/ out'.res # out.res))
         => out'.res \in CompleteRecords]_vars

\* ------------------------------------------------------------------------
\* The signal store and the readers (checked under SpecStore)
\* ------------------------------------------------------------------------

\* C16: I/O failures give benign defaults: getSignals returns the empty set
\* when the signals directory is missing or unreadable, getReviewStatus
\* returns PENDING when REVIEW.md is missing or unreadable, loadState
\* returns the record {init, 1, 0} when state.json is missing or does not
\* parse.
C16_BenignDefaults ==
    /\ (out.op = "getSignals" /\ signalsDir \in {"missing", "unreadable"})
         => out.res = {}
    /\ (out.op = "review_status"
          /\ reviewFile.kind \in {"missing", "unreadable"})
         => out.res = "PENDING"
    /\ (out.op = "loadState" /\ stateFile.kind \in {"missing", "corrupt"})
         => /\ out.res.phase = "init"
            /\ out.res.iteration = 1
            /\ out.res.commitCount = 0

\* C16 witness: getSignals was called on an unreadable directory that
\* holds markers.
C16_Witness ==
    /\ out.op = "getSignals"
    /\ out.res = {}
    /\ signalsDir = "unreadable"
    /\ signals # {}

\* C17: the store operations are idempotent: a second createSignal(n),
\* clearSignal(n) or clearAllSignals right after the first changes
\* nothing; after createSignal(n) the marker n is there; clearSignal and
\* clearAllSignals report no error, whether or not the marker or the
\* directory exists; after clearAllSignals getSignals returns the empty set.
C17_StoreIdempotent ==
    /\ [][(/\ out.op \in {"createSignal", "clearSignal", "clearAllSignals"}
           /\ out'.op = out.op
           /\ out'.res = out.res)
            => UNCHANGED <<signals, signalsDir>>]_vars
    /\ [](out.op = "createSignal" => out.res \in signals)
    /\ [](out.op = "clearSignal"
            => (out.res \in StoreNames /\ out.res \notin signals))
    /\ [](out.op = "clearAllSignals"
            => (out.res = "done" /\ getSignals = {}))

\* C17 witness: clearSignal was called for a marker of a directory that does
\* not exist.
C17_Witness ==
    /\ out.op = "clearSignal"
    /\ signalsDir = "missing"

\* ------------------------------------------------------------------------
\* Branch sessions (checked under SpecSession)
\* ------------------------------------------------------------------------

\* C18: without a clearWorkflow no marker is ever removed: every step
\* other than the reset keeps all markers that are set.
C18_SignalsOnlyGrow ==
    [][signals \subseteq signals' \/ out'.op = "clear"]_vars

\* C18, amended: markers are removed only in bulk, by clearWorkflow or by a
\* session load that replaces them; every other step keeps all markers
\* that are set.
C18_SignalsRemovedOnlyInBulk ==
    [][\/ signals \subseteq signals'
       \/ out'.op = "clear"
       \/ (out'.op = "load_session" /\ out'.res \in SessionNames)]_vars

\* C18 witness: both markers are set and have survived two refine
\* dispatches and a session save.
C18_Witness ==
    /\ out.op = "save_session"
    /\ out.res \in SessionNames
    /\ signals = SessionMarkers
    /\ loadState.iteration = 3

\* C19: saving a session under one name leaves the snapshot saved under
\* every other name as it was, so that a later load of that name gives the state and
\* the markers of its own save.
C19_SaveIsolation ==
    /\ [][\A b \in SessionNames :
            (out'.op = "save_session" /\ out'.res = b)
              => \A a \in SessionNames \ {b} :
                   sessState[a].kind = "record"
                     => Snapshot(a)' = Snapshot(a)]_vars
    /\ [](\A a \in SessionNames :
            (out.op = "load_session" /\ out.res = a)
              => /\ stateFile = sessState[a]
                 /\ sessSignals[a].dir => signals = SessionSignals(a))

\* C20: after a successful load of session b the live markers are exactly
\* the markers stored in b's snapshot, whatever was set before the load.
C20_LoadReplacesSignals ==
    (out.op = "load_session" /\ out.res \in SessionNames)
        => signals = SessionSignals(out.res)

\* C21: a save under b overwrites b's snapshot: after every successful
\* saveSessionToBranch(b) the snapshot holds the state and exactly the
\* markers that are live at that save, nothing of an earlier save, and a
\* load of b restores what the snapshot holds.
C21_SaveOverwrites ==
    /\ [][\A b \in SessionNames :
            (out'.op = "save_session" /\ out'.res = b)
              => /\ sessState'[b].phase = loadState.phase
                 /\ sessState'[b].iteration = loadState.iteration
                 /\ sessState'[b].commitCount = loadState.commitCount
                 /\ sessSignals'[b].files = getSignals]_vars
    /\ [][\A b \in SessionNames :
            (out'.op = "load_session" /\ out'.res = b)
              => /\ stateFile' = sessState[b]
                 /\ sessSignals[b].dir => signals' = SessionSignals(b)]_vars

\* C22: deleting the session of b affects only b: after a successful
\* clearBranchSession(b) a load of b finds no session, and the snapshot
\* saved under every other name, names below b's path included, is as it
\* was.
C22_ClearAffectsOnlyItsBranch ==
    [][\A b \in SessionNames :
         (out'.op = "clear_session" /\ out'.res = b)
           => /\ sessState'[b].kind # "record"
              /\ \A d \in SessionNames \ {b} :
                   sessState[d].kind = "record"
                     => Snapshot(d)' = Snapshot(d)]_vars

\* ------------------------------------------------------------------------
\* Properties of the timeline (checked under SpecTimeline)
\* ------------------------------------------------------------------------

\* a is an initial segment of b.
IsPrefix(a, b) == Len(a) <= Len(b) /\ SubSeq(b, 1, Len(a)) = a

\* C23: the timeline is append-only: each addTimelineEvent leaves the log
\* of the current branch equal to the log before the call followed by the
\* one event it reports, and no step removes, changes or reorders an event
\* of any log.
C23_AppendOnly ==
    [][/\ now' # now =>
            loadTimeline(curBranch)' =
                Append(loadTimeline(curBranch), out'.res)
       /\ \A b \in TimelineBranches :
            IsPrefix(loadTimeline(b), loadTimeline(b)')]_vars

\* Three events have been appended to one log.
C23_Witness ==
    /\ out.op = "addTimelineEvent"
    /\ Len(loadTimeline(curBranch)) = 3
    /\ loadTimeline(curBranch)[3] = out.res

\* The last k events of a log.
LastEvents(a, k) == [i \in 1 .. k |-> a[Len(a) - k + i]]

\* C24: getRecentEvents(n) returns the last min(n, length) events of the
\* log of the branch, in the order of the log, for every n >= 0: none for
\* n = 0.
C24_RecentEvents ==
    out.op = "getRecentEvents" =>
        LET log == loadTimeline(out.res.branch)
            k == IF out.res.limit < Len(log) THEN out.res.limit ELSE Len(log)
        IN  out.res.events = LastEvents(log, k)

\* C25: the timeline is branch-scoped: an event recorded while the current
\* branch is A is in the log of no other branch, so every event "Saved
\* session for A" in the log of a branch B has A = B.
C25_BranchScoped ==
    \A b \in TimelineBranches :
        \A i \in 1 .. Len(loadTimeline(b)) :
            loadTimeline(b)[i].type = "session_resume"
                => loadTimeline(b)[i].message = b

\* C26: a failed external command is reported and nothing else happens:
\* when the push or gh fails, handleCreatePR creates no pr marker and leaves
\* the saved phase and iteration as they were; when the feature branch
\* cannot be created, handlePlanApproved creates no plan marker, assigns no
\* worker and saves nothing.  Neither tries again within the step.
C26_FailuresChangeNothing ==
    [][(\/ HandlerStep("pr") /\ out'.res = "failed"
        \/ HandlerStep("plan") /\ out'.res = "branch_failed")
          => UNCHANGED <<signals, stateFile, pending, curBranch, refines>>]_vars

\* PR creation has failed after the compound step: no pr marker, and the
\* saved phase is still compounding.
C26_Witness ==
    /\ out = Report("pr", "failed")
    /\ "compound" \in signals
    /\ "pr" \notin signals
    /\ loadState.phase = "compounding"

\* ------------------------------------------------------------------------
\* Properties of the command line (checked under SpecCli)
\* ------------------------------------------------------------------------

\* C27: a command other than init that is run without .workflow/ exits
\* with a non-zero status and creates or changes no workflow file: not the
\* directory, the markers or the state file.
C27_NoWorkflowDirExits ==
    [][(/\ ~workflowDir
        /\ out'.op = "cli"
        /\ out'.res.command # "init")
          => /\ out'.res.exit # 0
             /\ UNCHANGED <<workflowDir, signalsDir, signals, stateFile,
                            tmpFile>>]_vars

\* C28: the saved iteration is always one of 1, 2, 3: in state.json and in
\* the state.json of every saved branch session, whatever refines, resets,
\* session saves and session loads came before.
C28_IterationInRange ==
    /\ stateFile.kind = "record" => stateFile.iteration \in 1 .. MaxIterations
    /\ \A b \in DOMAIN sessState :
         sessState[b].kind = "record"
            => sessState[b].iteration \in 1 .. MaxIterations

\* A session saved at iteration 3 has been loaded back after a reset.
C28_Witness ==
    /\ out.op = "load_session"
    /\ out.res \in SessionNames
    /\ stateFile.kind = "record"
    /\ stateFile.iteration = MaxIterations
    /\ sessState[out.res].iteration = MaxIterations

\* C29: a refresh writes the re-derived phase back: right after the refresh
\* command the saved phase is the phase determinePhase derives from the
\* markers of that moment.
C29_RefreshWritesBack ==
    [][HandlerStep("refresh")
         => loadState'.phase = determinePhase(getSignals)']_vars

\* C30: right after every refine request that is accepted, the second of a
\* session included, the phase determinePhase derives is refining: refine
\* markers left by an earlier round do not make it reviewing.
C30_RefineDerivesRefining ==
    [][(HandlerStep("refine") /\ out'.res = "dispatched")
         => determinePhase(getSignals)' = "refining"]_vars

\* C31: each increment of the iteration consumes a fresh review verdict: a
\* refine request that follows an accepted refine request with no other
\* command (so no review dispatch) in between does not raise the iteration
\* again.
C31_RefineNeedsFreshVerdict ==
    [][(out = Report("refine", "dispatched") /\ out'.op = "refine")
         => loadState'.iteration = loadState.iteration]_vars

\* ------------------------------------------------------------------------
\* The phase engine as markers are added (checked under SpecForward)
\* ------------------------------------------------------------------------

\* init < planning < implementing < {reviewing, refining} < compounding <
\* complete
PhaseRank(p) ==
    CASE p = "init" -> 0
      [] p = "planning" -> 1
      [] p = "implementing" -> 2
      [] p \in {"reviewing", "refining"} -> 3
      [] p = "compounding" -> 4
      [] p = "complete" -> 5

C33_ClearRestarts ==
    [][HandlerStep("clear")
         => /\ loadState' = getInitialState
            /\ getSignals' = {}
            /\ determinePhase(getSignals)' = "init"]_vars

\* ------------------------------------------------------------------------
\* Properties of the branch switch (checked under SpecSwitch)
\* ------------------------------------------------------------------------

\* C34: after a switch to a branch with no saved session the live state is
\* that of a fresh session: the initial record and no marker, not what the
\* branch just left had.
C34_SwitchStartsFresh ==
    [][(switching.pc = "switched" /\ switching'.pc = "idle"
        /\ out'.res = "no_session")
         => /\ loadState' = getInitialState
            /\ getSignals' = {}]_vars

\* ------------------------------------------------------------------------
\* Properties of overlapping commands (checked under SpecRace)
\* ------------------------------------------------------------------------

\* C35: no update is lost between the processes: once a refine request and
\* a reset that overlapped have both finished, the saved record and the
\* markers are what one of the two serial orders leaves, so the markers are
\* never empty next to a saved phase refining with iteration above 1.
C35_NoLostUpdate ==
    saving = Idle =>
        ~(/\ getSignals = {}
          /\ loadState.phase = "refining"
          /\ loadState.iteration > 1)

\* ------------------------------------------------------------------------
\* Properties of concurrent writers (checked under SpecWriters)
\* ------------------------------------------------------------------------

\* C36: two saveState calls running at once both complete without raising,
\* and each publishes its own record: the shared state.json.tmp makes no
\* writer publish the other's record or fail on a missing temporary file.
C36_ConcurrentSaves ==
    \A w \in Writers :
        /\ saving[w].pc # "raised"
        /\ saving[w].pc \in {"written", "done"}
              => saving[w].published = saving[w].new

SessionOutcome ==
    \/ loadState.phase = "complete"
    \/ determinePhase(getSignals) = "complete"
    \/ loadState.iteration = MaxIterations /\ getReviewStatus = "FAIL"

\* An agent still has something to write.
AgentAtWork == pending # {} \/ ~planFile

\* A command that the keypress handler would carry out.
CommandEnabled ==
    \/ planFile /\ (loadState.phase = "planning" \/ "plan" \notin getSignals)
    \/ loadState.phase \in {"implementing", "refining"}
    \/ getReviewStatus = "FAIL" /\ loadState.iteration < MaxIterations
    \/ getReviewStatus \in {"PASS", "PASS_WITH_WARNINGS"}
    \/ "compound" \in getSignals

\* C38: short of the two outcomes no reachable state of a session leaves
\* the workflow with nothing to do: an agent is still at work or a command
\* is enabled, so that under fair agents, external commands and user every
\* session reaches one of the outcomes.
C38_NoDeadEnd == SessionOutcome \/ AgentAtWork \/ CommandEnabled

\* ------------------------------------------------------------------------
\* Streaming of the web server (checked under SpecStream)
\* ------------------------------------------------------------------------

\* C39: whatever the order of WebSocket open and close events and of
\* removals after failed sends, streaming is active whenever a client is in
\* the connected set, and there is never more than one streaming interval.
C39_StreamingWhileClients ==
    /\ clients # {} => (streamingInterval /\ intervals > 0)
    /\ intervals <= 1

====
